---- MODULE Spec2Model ----
(***************************************************************************)
(* Verification model of the LLM evaluation control panel (frontend).      *)
(*                                                                         *)
(*   - the workflow store (theme.config.ts: WorkflowStore, loadState,      *)
(*     saveState and the public mutators) with browser storage;            *)
(*   - the store's subscribers (subscribe, notify, useWorkflow);           *)
(*   - the workflow guard and the three analysis views;                    *)
(*   - the evaluation workflow view with its status polling;               *)
(*   - the QA process / QA status views with their event streams;          *)
(*   - the progress-bar arithmetic of the monitoring views.                *)
(*                                                                         *)
(* JavaScript objects are modelled as records [v, u]: v maps the own keys  *)
(* holding a defined value to that value, u is the set of own keys whose   *)
(* value is undefined.  JSON null in a string field is the string Null.    *)
(* The Chinese stage labels of the source are written in English.          *)
(***************************************************************************)
EXTENDS Integers, Sequences, FiniteSets, Bags, TLC

VARIABLES
    \* ---- workflow store (theme.config.ts) ----
    state,          \* WorkflowStore.state
    defaultState,   \* module-level defaultState object (mutable through aliases)
    alias,          \* sections of state that are the same object as defaultState's
    hasStorage,     \* WorkflowStore.hasStorage
    storage,        \* localStorage item 'llm_eval_workflow_state'
    justLoaded,     \* no mutation since the store was constructed
    listeners,      \* WorkflowStore.listeners: per subscribed listener, its calls
    setItemThrows,  \* window.localStorage.setItem throws (quota exceeded, writes denied)
    nOps,           \* number of store operations performed (bounded by MaxOps)
    \* ---- router and workflow guard (App.tsx, useWorkflowGuard.ts) ----
    loc,            \* current path
    hasShownModal,  \* useWorkflowGuard: hasShownModal.current of the mounted guard
    modalInstance,  \* useWorkflowGuard: "none", "open" (Modal.warning on screen), "destroyed"
    \* ---- evaluation workflow view (EvaluationWorkflow) ----
    ewInst,         \* number of the mounted (or last mounted) view instance
    ewStep,         \* currentStep
    ewTaskId,       \* taskId (0: null)
    ewTaskStatus,   \* taskStatus.status ("none": null)
    ewNotified,     \* workflowNotified
    ewCreating,     \* creatingTask
    pollingRef,     \* per view instance: the interval timer held in pollingRef.current
    inflight,       \* bag of status requests sent and not yet handled
    creation,       \* per view instance: a startEvaluation call awaits createTask
    backend,        \* per task: the backend's status of the task
    shown,          \* messages shown: success/failure per task, guard warnings
    cancelSent,     \* a cancel request has been sent to the backend
    \* ---- FLMM project creation (FLMM/Create.tsx) ----
    flmmCur,        \* creation requests in flight issued by the mounted view (isPending)
    flmmOld,        \* creation requests in flight issued by views since unmounted
    \* ---- QA process and QA status views (QA/Process.tsx, QAStatus) ----
    qaStep,         \* QAProcess: currentStep
    qaPending,      \* QAProcess: startGenerateMutation.isPending
    qaTasks,        \* QAProcess: allTasks.length
    qaIndex,        \* QAProcess: currentTaskIndex
    qaTaskId,       \* taskId: 0 (null) or k for the k-th task of allTasks
    qaProgress,     \* progressData
    qaLogs,         \* logs.length
    qaSummary,      \* summary !== null
    qaProcessing,   \* isProcessing
    es,             \* the EventSource held in eventSourceRef.current
    \* ---- progress panels of the monitoring views ----
    barView,        \* the panel: [view, tasks, index] (allTasks.length, currentTaskIndex)
    barCur,         \* the progress report on display (progressData / taskStatus)
    barPrev,        \* the report displayed before it
    \* ---- notifications ----
    errorShown      \* message.error notifications shown for failed requests

storeVars == <<state, defaultState, alias, hasStorage, storage, justLoaded,
               listeners, setItemThrows>>

guardVars == <<loc, hasShownModal, modalInstance>>

ewVars == <<ewInst, ewStep, ewTaskId, ewTaskStatus, ewNotified, ewCreating,
            pollingRef, inflight, creation, backend, shown, cancelSent>>

flmmVars == <<flmmCur, flmmOld>>

qaVars == <<qaStep, qaPending, qaTasks, qaIndex, qaTaskId, qaProgress, qaLogs, qaSummary,
            qaProcessing, es>>

barVars == <<barView, barCur, barPrev>>

noticeVars == <<errorShown>>

appVars == <<guardVars, ewVars, flmmVars, qaVars, barVars, noticeVars>>

vars == <<storeVars, nOps, appVars>>

-----------------------------------------------------------------------------
(* JavaScript object helpers *)

Null == "<null>"

EmptyFn == [k \in {} |-> 0]

Obj(v, u) == [v |-> v, u |-> u]

EmptyObj == Obj(EmptyFn, {})

\* { ...b, ...o }
Spread(b, o) ==
    [v |-> [k \in ((DOMAIN b.v) \ o.u) \cup (DOMAIN o.v) |->
                IF k \in DOMAIN o.v THEN o.v[k] ELSE b.v[k]],
     u |-> (b.u \ (DOMAIN o.v)) \cup o.u]

\* o.k = val
Put(o, k, val) ==
    [v |-> [kk \in (DOMAIN o.v) \cup {k} |-> IF kk = k THEN val ELSE o.v[kk]],
     u |-> o.u \ {k}]

\* o.k = undefined
PutUndef(o, k) ==
    [v |-> [kk \in (DOMAIN o.v) \ {k} |-> o.v[kk]],
     u |-> o.u \cup {k}]

\* o.k is neither undefined nor absent
Has(o, k) == k \in DOMAIN o.v

-----------------------------------------------------------------------------
(* theme.config.ts: defaults *)

STORAGE_KEY == "llm_eval_workflow_state"

defaultEvaluationParams ==
    Obj([stage1_answer_threshold |-> 60,
         stage1_reasoning_threshold |-> 60,
         stage2_answer_threshold |-> 60,
         stage2_reasoning_threshold |-> 60,
         evaluation_rounds |-> 1], {})

defaultQAParams ==
    Obj([numPairs |-> 5,
         useSuggested |-> FALSE,
         includeReason |-> TRUE,
         minDensityScore |-> 5,
         minQualityScore |-> 5,
         skipExtract |-> FALSE,
         skipEvaluate |-> FALSE,
         skipQA |-> FALSE,
         skipQAEvaluate |-> FALSE,
         enableQAEvaluation |-> TRUE,
         minFactualScore |-> 7,
         minOverallScore |-> 7,
         samplePercentage |-> 100], {})

ValidStageKeys == {"init", "stage1", "stage2", "result"}

SnapshotKeys == {"key", "label", "progress", "status", "enabled", "message", "updatedAt"}

createDefaultEvaluationStages ==
    Obj([init   |-> Obj([key |-> "init", label |-> "Initialisation", progress |-> 0,
                         status |-> "active", enabled |-> TRUE, message |-> Null],
                        {"updatedAt"}),
         stage1 |-> Obj([key |-> "stage1", label |-> "Stage 1 evaluation", progress |-> 0,
                         status |-> "pending", enabled |-> TRUE, message |-> Null],
                        {"updatedAt"}),
         stage2 |-> Obj([key |-> "stage2", label |-> "Stage 2 evaluation", progress |-> 0,
                         status |-> "pending", enabled |-> TRUE, message |-> Null],
                        {"updatedAt"}),
         result |-> Obj([key |-> "result", label |-> "Result processing", progress |-> 0,
                         status |-> "pending", enabled |-> TRUE, message |-> Null],
                        {"updatedAt"})], {})

\* the value of the module-level constant defaultState when the module is loaded
InitialDefaultState ==
    [flmm |-> Obj([processCompleted |-> FALSE], {}),
     qa |-> Obj([processCompleted |-> FALSE, step |-> 0, params |-> defaultQAParams], {}),
     evaluation |-> Obj([workflowCompleted |-> FALSE,
                         stages |-> createDefaultEvaluationStages,
                         params |-> defaultEvaluationParams], {})]

Sections == {"flmm", "qa", "evaluation"}

-----------------------------------------------------------------------------
(* JSON.stringify / JSON.parse of the workflow state.  A JSON object is a  *)
(* function from its keys to values; keys whose value is undefined are not *)
(* written.                                                                *)

JsonOfObject(o) == o.v

JsonOfStages(st) == [k \in DOMAIN st.v |-> JsonOfObject(st.v[k])]

JsonOfSection(o) ==
    [k \in DOMAIN o.v |->
        IF k = "params" THEN JsonOfObject(o.v[k])
        ELSE IF k = "stages" THEN JsonOfStages(o.v[k])
        ELSE o.v[k]]

\* JSON.stringify(this.state)
Stringify(s) ==
    [kind |-> "object",
     obj |-> [sec \in Sections |-> JsonOfSection(s[sec])]]

ObjectOfJson(j) == Obj(j, {})

StagesOfJson(j) == Obj([k \in DOMAIN j |-> ObjectOfJson(j[k])], {})

SectionOfJson(j) ==
    Obj([k \in DOMAIN j |->
            IF k = "params" THEN ObjectOfJson(j[k])
            ELSE IF k = "stages" THEN StagesOfJson(j[k])
            ELSE j[k]], {})

\* parsed.<sec> || {}
ParsedSection(parsed, sec) ==
    IF sec \in DOMAIN parsed THEN SectionOfJson(parsed[sec]) ELSE EmptyObj

\* o.<k> || dflt for an object-valued key
GetOr(o, k, dflt) == IF Has(o, k) THEN o.v[k] ELSE dflt

-----------------------------------------------------------------------------
(* theme.config.ts: loadState *)

\* LoadFallback with the qa section built as resetQA builds it (step: undefined)
LoadFallbackStepUndefined(dflt) ==
    [flmm |-> Spread(EmptyObj, dflt.flmm),
     qa |-> Obj([processCompleted |-> FALSE, params |-> defaultQAParams], {"step"}),
     evaluation |-> Obj([workflowCompleted |-> FALSE,
                         stages |-> createDefaultEvaluationStages,
                         params |-> Spread(EmptyObj, defaultEvaluationParams)],
                        {"evaluationId"})]

\* the final return of loadState (nothing saved, or an exception was caught)
LoadFallback(dflt) ==
    [flmm |-> Spread(EmptyObj, dflt.flmm),
     qa |-> Spread(EmptyObj, dflt.qa),
     evaluation |-> Obj([workflowCompleted |-> FALSE,
                         stages |-> createDefaultEvaluationStages,
                         params |-> Spread(EmptyObj, defaultEvaluationParams)],
                        {"evaluationId"})]

\* LoadMerged with `step: defaultState.qa.step` (the persisted step is dropped)
LoadMergedStepDefault(parsed, dflt) ==
    LET pf == ParsedSection(parsed, "flmm")
        pq == ParsedSection(parsed, "qa")
        pe == ParsedSection(parsed, "evaluation")
        q1 == Spread(dflt.qa, pq)
        q2 == IF Has(dflt.qa, "step") THEN Put(q1, "step", dflt.qa.v["step"])
              ELSE PutUndef(q1, "step")
        q3 == Put(q2, "params", Spread(defaultQAParams, GetOr(pq, "params", EmptyObj)))
        e1 == Spread(dflt.evaluation, pe)
        e2 == Put(e1, "stages", GetOr(pe, "stages", createDefaultEvaluationStages))
        e3 == Put(e2, "params", Spread(defaultEvaluationParams, GetOr(pe, "params", EmptyObj)))
    IN  [flmm |-> Spread(dflt.flmm, pf), qa |-> q3, evaluation |-> e3]

\* the return inside `if (saved)`: parsed merged over the defaults
LoadMerged(parsed, dflt) ==
    LET pf == ParsedSection(parsed, "flmm")
        pq == ParsedSection(parsed, "qa")
        pe == ParsedSection(parsed, "evaluation")
        q1 == Spread(dflt.qa, pq)
        \* step: parsed.qa?.step ?? defaultState.qa.step
        q2 == IF Has(pq, "step") THEN Put(q1, "step", pq.v["step"])
              ELSE IF Has(dflt.qa, "step") THEN Put(q1, "step", dflt.qa.v["step"])
              ELSE PutUndef(q1, "step")
        q3 == Put(q2, "params", Spread(defaultQAParams, GetOr(pq, "params", EmptyObj)))
        e1 == Spread(dflt.evaluation, pe)
        e2 == Put(e1, "stages", GetOr(pe, "stages", createDefaultEvaluationStages))
        e3 == Put(e2, "params", Spread(defaultEvaluationParams, GetOr(pe, "params", EmptyObj)))
    IN  [flmm |-> Spread(dflt.flmm, pf), qa |-> q3, evaluation |-> e3]

\* saved: [kind, obj].  kind "none": no item or the empty string (falsy);
\* "invalid": JSON.parse throws; "null": parses to null, parsed.flmm throws;
\* "scalar": parses to a number, string, boolean or array (no flmm/qa/evaluation
\* property); "object": parses to an object with the keys of obj.
loadState(hs, saved, dflt) ==
    IF ~hs THEN dflt
    ELSE IF saved.kind = "object" THEN LoadMerged(saved.obj, dflt)
    ELSE IF saved.kind = "scalar" THEN LoadMerged(EmptyFn, dflt)
    ELSE LoadFallback(dflt)

\* `return { ...defaultState }` shares the three section objects with defaultState
LoadAlias(hs) == IF hs THEN {} ELSE Sections

-----------------------------------------------------------------------------
(* theme.config.ts: the store's mutators, as functions of the section they *)
(* change.  An optional string argument is [some |-> BOOLEAN, val |-> ..]. *)

Some(x) == [some |-> TRUE, val |-> x]
None == [some |-> FALSE, val |-> ""]

\* o.k = arg
PutOpt(o, k, arg) == IF arg.some THEN Put(o, k, arg.val) ELSE PutUndef(o, k)

setFLMMProcessCompletedOn(flmm, projectId) ==
    PutOpt(Put(flmm, "processCompleted", TRUE), "projectId", projectId)

resetFLMMValue == Obj([processCompleted |-> FALSE], {})

setQAProcessCompletedOn(qa, taskId) ==
    PutOpt(Put(qa, "processCompleted", TRUE), "taskId", taskId)

saveQAParamsOn(qa, params) ==
    Put(qa, "params", Spread(qa.v["params"], params))

resetQAValue ==
    Obj([processCompleted |-> FALSE, params |-> Spread(EmptyObj, defaultQAParams)], {"step"})

setEvaluationWorkflowCompletedOn(ev, evaluationId) ==
    PutOpt(Put(ev, "workflowCompleted", TRUE), "evaluationId", evaluationId)

resetEvaluationValue ==
    Obj([workflowCompleted |-> FALSE,
         stages |-> createDefaultEvaluationStages,
         params |-> Spread(EmptyObj, defaultEvaluationParams)], {"evaluationId"})

saveEvaluationParamsOn(ev, params) ==
    Put(ev, "params", Spread(ev.v["params"], params))

ensureEvaluationStages(ev) ==
    IF Has(ev, "stages") THEN ev ELSE Put(ev, "stages", createDefaultEvaluationStages)

updateEvaluationStageOn(ev, stageKey, snapshot) ==
    LET e1 == ensureEvaluationStages(ev)
        stages == e1.v["stages"]
        base == GetOr(stages, stageKey, createDefaultEvaluationStages.v[stageKey])
    IN  Put(e1, "stages", Put(stages, stageKey, Spread(base, snapshot)))

\* stageMap: a function from keys (valid or not) to partial snapshots
bulkUpdateEvaluationStagesOn(ev, stageMap) ==
    LET e1 == ensureEvaluationStages(ev)
        stages == e1.v["stages"]
        hit == (DOMAIN stageMap) \cap ValidStageKeys
        merged ==
            [v |-> [k \in (DOMAIN stages.v) \cup hit |->
                       IF k \in hit
                       THEN Spread(GetOr(stages, k, createDefaultEvaluationStages.v[k]),
                                   stageMap[k])
                       ELSE stages.v[k]],
             u |-> stages.u \ hit]
    IN  Put(e1, "stages", merged)

resetEvaluationStagesOn(ev) == Put(ev, "stages", createDefaultEvaluationStages)

\* resetAll builds its sections from the current defaultState object
resetAllValue(dflt) ==
    [flmm |-> Spread(EmptyObj, dflt.flmm),
     qa |-> Spread(EmptyObj, dflt.qa),
     evaluation |-> Obj([workflowCompleted |-> FALSE,
                         stages |-> createDefaultEvaluationStages,
                         params |-> Spread(EmptyObj, defaultEvaluationParams)],
                        {"evaluationId"})]

canAccessFLMMAnalysis == state.flmm.v["processCompleted"]
canAccessQAAnalysis == state.qa.v["processCompleted"]
canAccessEvaluationAnalysis == state.evaluation.v["workflowCompleted"]

-----------------------------------------------------------------------------
(* theme.config.ts: saveState, and the two ways a mutator writes a section *)

\* getState(): a copy of the state
getState(s) == [sec \in Sections |-> s[sec]]

\* notify(): every listener is called with getState(); a listener of useWorkflow
\* keeps what it was called with (setState(newState))
notify(newState) ==
    [l \in DOMAIN listeners |->
        [held |-> getState(newState), calls |-> listeners[l].calls + 1]]

\* (variant: nothing is written)
saveStateSkipped(newState) ==
    /\ storage' = storage
    /\ UNCHANGED <<listeners, setItemThrows>>

\* try { if (hasStorage) setItem(STORAGE_KEY, JSON.stringify(this.state));
\*       this.notify() } catch (e) { console.error(..) }
\* a throwing setItem leaves the item as it was and skips the rest of the try
saveState(newState) ==
    /\ storage' = IF hasStorage /\ ~setItemThrows THEN Stringify(newState) ELSE storage
    /\ listeners' = IF hasStorage /\ setItemThrows THEN listeners ELSE notify(newState)
    /\ UNCHANGED setItemThrows

\* this.state.<sec>.<key> = ... : the section object is changed in place, so a
\* defaultState section that is the same object changes with it
MutateInPlace(sec, newObj) ==
    /\ state' = [state EXCEPT ![sec] = newObj]
    /\ defaultState' = IF sec \in alias THEN [defaultState EXCEPT ![sec] = newObj]
                       ELSE defaultState
    /\ alias' = alias
    /\ saveState([state EXCEPT ![sec] = newObj])
    /\ justLoaded' = FALSE
    /\ UNCHANGED hasStorage

StoreUnchanged == UNCHANGED storeVars

\* this.state.<sec> = { ... } : the section is a new object
ReplaceSection(sec, newObj) ==
    /\ state' = [state EXCEPT ![sec] = newObj]
    /\ defaultState' = defaultState
    /\ alias' = alias \ {sec}
    /\ saveState([state EXCEPT ![sec] = newObj])
    /\ justLoaded' = FALSE
    /\ UNCHANGED hasStorage

-----------------------------------------------------------------------------
(* Bounds and values of the application model *)

MaxMounts == 2       \* mounts of the evaluation workflow view
MaxTasks == 1        \* evaluation tasks the backend creates
MaxInflight == 2     \* status requests in flight at a time
MaxShown == 2        \* notification counters saturate here
MaxOldCreates == 1   \* project creations in flight from unmounted views
MaxErrorsShown == 1  \* the error notification counter saturates here

TaskNames == <<"t1", "t2", "t3", "t4">>

NoTimer == [armed |-> FALSE, interval |-> 0, task |-> 0, notif |-> FALSE]
\* progressData: null, or the fields the views read (stage2: current_step or message
\* carries one of the stage-2 keywords getCurrentStage looks for)
NullProgress == [null |-> TRUE, progress |-> 0, stage2 |-> FALSE]
ProgressData(progress, stage2) == [null |-> FALSE, progress |-> progress, stage2 |-> stage2]

\* an EventSource: readyState, the task it follows, the values its handlers captured
\* from the render that created it, and whether a terminal event was delivered to it
NoCapture == [progress |-> NullProgress, index |-> 0, tasks |-> 0]
NoStream == [state |-> "none", task |-> 0, cap |-> NoCapture, terminalSeen |-> FALSE]

NoPanel == [view |-> "none", tasks |-> 0, index |-> 0]
NoReport == [kind |-> "none"]

NothingShown ==
    [evalOk |-> [t \in 1..MaxTasks |-> 0],
     evalFailed |-> [t \in 1..MaxTasks |-> 0],
     warn |-> 0]

\* the values of the view and network variables when nothing is mounted or pending
AppIdle ==
    /\ loc = "/"
    /\ hasShownModal = FALSE
    /\ modalInstance = "none"
    /\ ewInst = 0
    /\ ewStep = 0
    /\ ewTaskId = 0
    /\ ewTaskStatus = "none"
    /\ ewNotified = FALSE
    /\ ewCreating = FALSE
    /\ pollingRef = [i \in 1..MaxMounts |-> NoTimer]
    /\ inflight = EmptyBag
    /\ creation = [i \in 1..MaxMounts |-> FALSE]
    /\ backend = [t \in 1..MaxTasks |-> "absent"]
    /\ shown = NothingShown
    /\ cancelSent = FALSE
    /\ flmmCur = 0
    /\ flmmOld = 0
    /\ qaStep = 0
    /\ qaPending = FALSE
    /\ qaTasks = 0
    /\ qaIndex = 0
    /\ qaTaskId = 0
    /\ qaProgress = NullProgress
    /\ qaLogs = 0
    /\ qaSummary = FALSE
    /\ qaProcessing = FALSE
    /\ es = NoStream
    /\ barView = NoPanel
    /\ barCur = NoReport
    /\ barPrev = NoReport
    /\ errorShown = 0

-----------------------------------------------------------------------------
(* The store driven through its public operations *)

MaxOps == 3

ProjectIdArgs == {None, Some("p1")}
TaskIdArgs == {None, Some("t1")}
StepArgs == {0, 1, 2}
QAParamPatches ==
    {Obj([numPairs |-> 10], {}),
     Obj([skipQA |-> TRUE, samplePercentage |-> 50], {})}
EvalParamPatches == {Obj([evaluation_rounds |-> 3], {})}

SnapshotActive == Obj([progress |-> 50, status |-> "active"], {})
\* a snapshot as fetchStatus builds it when the backend omits the label
SnapshotDone ==
    Obj([progress |-> 100, status |-> "completed", message |-> "done",
         updatedAt |-> "2025-01-01"], {"label"})
SnapshotPatches == {SnapshotActive, SnapshotDone}

StageMaps ==
    {[stage1 |-> SnapshotActive],
     [init |-> SnapshotDone, extra |-> SnapshotActive],
     [extra |-> SnapshotActive]}

\* localStorage contents a store can be constructed over
SavedNone == [kind |-> "none", obj |-> EmptyFn]
SavedValues ==
    {SavedNone,
     [kind |-> "invalid", obj |-> EmptyFn],
     [kind |-> "null", obj |-> EmptyFn],
     [kind |-> "scalar", obj |-> EmptyFn],
     [kind |-> "object", obj |-> EmptyFn],
     [kind |-> "object",
      obj |-> [flmm |-> [processCompleted |-> TRUE, projectId |-> "p1"]]],
     [kind |-> "object",
      obj |-> [qa |-> [processCompleted |-> TRUE, params |-> [numPairs |-> 10]]]],
     [kind |-> "object",
      obj |-> [evaluation |-> [workflowCompleted |-> TRUE, evaluationId |-> "t1",
                               params |-> [evaluation_rounds |-> 3]]]],
     [kind |-> "object",
      obj |-> [evaluation |-> [stages |-> [init |-> [key |-> "init", progress |-> 50]]]]],
     Stringify(InitialDefaultState)}

\* new WorkflowStore(), in a browser whose storage takes writes or throws on them
ConstructOver(hs, saved, throws) ==
    /\ hasStorage = hs
    /\ storage = saved
    /\ defaultState = InitialDefaultState
    /\ state = loadState(hs, saved, InitialDefaultState)
    /\ alias = LoadAlias(hs)
    /\ justLoaded = TRUE
    /\ listeners = EmptyFn
    /\ setItemThrows = throws

\* new WorkflowStore(), storage (if any) taking writes
Construct(hs, saved) == ConstructOver(hs, saved, FALSE)

InitStore ==
    /\ \E hs \in BOOLEAN :
         \E saved \in (IF hs THEN SavedValues ELSE {SavedNone}) : Construct(hs, saved)
    /\ nOps = 0
    /\ AppIdle

Op == nOps < MaxOps /\ nOps' = nOps + 1 /\ UNCHANGED appVars

\* the page is reloaded: the module is evaluated again over the same storage
Reload ==
    /\ Op
    /\ defaultState' = InitialDefaultState
    /\ state' = loadState(hasStorage, storage, InitialDefaultState)
    /\ alias' = LoadAlias(hasStorage)
    /\ justLoaded' = TRUE
    /\ listeners' = EmptyFn
    /\ UNCHANGED <<hasStorage, storage, setItemThrows>>

setFLMMProcessCompleted ==
    \E projectId \in ProjectIdArgs :
        Op /\ MutateInPlace("flmm", setFLMMProcessCompletedOn(state.flmm, projectId))

resetFLMM == Op /\ ReplaceSection("flmm", resetFLMMValue)

setQAProcessCompleted ==
    \E taskId \in TaskIdArgs :
        Op /\ MutateInPlace("qa", setQAProcessCompletedOn(state.qa, taskId))

setQAGenerateTaskId ==
    Op /\ MutateInPlace("qa", Put(state.qa, "generateTaskId", "t1"))

setQAEvaluateTaskId ==
    Op /\ MutateInPlace("qa", Put(state.qa, "evaluateTaskId", "t1"))

setQAStep ==
    \E step \in StepArgs : Op /\ MutateInPlace("qa", Put(state.qa, "step", step))

saveQAParams ==
    \E params \in QAParamPatches :
        Op /\ MutateInPlace("qa", saveQAParamsOn(state.qa, params))

resetQA == Op /\ ReplaceSection("qa", resetQAValue)

setEvaluationWorkflowCompleted ==
    \E evaluationId \in TaskIdArgs :
        Op /\ MutateInPlace("evaluation",
                            setEvaluationWorkflowCompletedOn(state.evaluation, evaluationId))

resetEvaluation == Op /\ ReplaceSection("evaluation", resetEvaluationValue)

saveEvaluationParams ==
    \E params \in EvalParamPatches :
        Op /\ MutateInPlace("evaluation", saveEvaluationParamsOn(state.evaluation, params))

updateEvaluationStage ==
    \E stageKey \in ValidStageKeys, snapshot \in SnapshotPatches :
        Op /\ MutateInPlace("evaluation",
                            updateEvaluationStageOn(state.evaluation, stageKey, snapshot))

bulkUpdateEvaluationStages ==
    \E stageMap \in StageMaps :
        Op /\ MutateInPlace("evaluation",
                            bulkUpdateEvaluationStagesOn(state.evaluation, stageMap))

resetEvaluationStages ==
    Op /\ MutateInPlace("evaluation", resetEvaluationStagesOn(state.evaluation))

resetAll ==
    /\ Op
    /\ state' = resetAllValue(defaultState)
    /\ alias' = {}
    /\ saveState(resetAllValue(defaultState))
    /\ justLoaded' = FALSE
    /\ UNCHANGED <<defaultState, hasStorage>>

NextStore ==
    \/ Reload
    \/ setFLMMProcessCompleted
    \/ resetFLMM
    \/ setQAProcessCompleted
    \/ setQAGenerateTaskId
    \/ setQAEvaluateTaskId
    \/ setQAStep
    \/ saveQAParams
    \/ resetQA
    \/ setEvaluationWorkflowCompleted
    \/ resetEvaluation
    \/ saveEvaluationParams
    \/ updateEvaluationStage
    \/ bulkUpdateEvaluationStages
    \/ resetEvaluationStages
    \/ resetAll

SpecStore == InitStore /\ [][NextStore]_vars

-----------------------------------------------------------------------------
(* Properties of the store: load, save and reload *)

\* the defined values of a section, without the keys holding undefined
PlainObject(o) == o.v
PlainSection(o) ==
    [k \in DOMAIN o.v |->
        IF k = "params" THEN PlainObject(o.v[k])
        ELSE IF k = "stages" THEN [sk \in DOMAIN o.v[k].v |-> PlainObject(o.v[k].v[sk])]
        ELSE o.v[k]]
PlainState(s) == [sec \in Sections |-> PlainSection(s[sec])]

MergeFn(b, o) ==
    [k \in (DOMAIN b) \cup (DOMAIN o) |-> IF k \in DOMAIN o THEN o[k] ELSE b[k]]

FieldOr(f, k, dflt) == IF k \in DOMAIN f THEN f[k] ELSE dflt

HardCodedDefault == PlainState(InitialDefaultState)

\* what a persisted object is expected to load as: every persisted key with its
\* value, every missing key (section, parameter, stages map, stage entry, stage
\* field) with its default
MergedWithDefaults(parsed) ==
    LET d == HardCodedDefault
        pf == FieldOr(parsed, "flmm", EmptyFn)
        pq == FieldOr(parsed, "qa", EmptyFn)
        pe == FieldOr(parsed, "evaluation", EmptyFn)
        ps == FieldOr(pe, "stages", EmptyFn)
        qa == [MergeFn(d.qa, pq) EXCEPT
                 !["params"] = MergeFn(d.qa["params"], FieldOr(pq, "params", EmptyFn))]
        stages ==
            [k \in ValidStageKeys \cup DOMAIN ps |->
                IF k \in ValidStageKeys
                THEN MergeFn(d.evaluation["stages"][k], FieldOr(ps, k, EmptyFn))
                ELSE ps[k]]
        ev == [MergeFn(d.evaluation, pe) EXCEPT
                 !["params"] = MergeFn(d.evaluation["params"], FieldOr(pe, "params", EmptyFn)),
                 !["stages"] = stages]
    IN  [flmm |-> MergeFn(d.flmm, pf), qa |-> qa, evaluation |-> ev]

\* the same, with a persisted stages map taken as it is
MergedWithDefaultsShallowStages(parsed) ==
    LET pe == FieldOr(parsed, "evaluation", EmptyFn)
        m == MergedWithDefaults(parsed)
    IN  IF "stages" \in DOMAIN pe
        THEN [m EXCEPT !["evaluation"]["stages"] = pe["stages"]]
        ELSE m

FreshlyLoadedObject == justLoaded /\ hasStorage /\ storage.kind = "object"

\* C4: when the persisted value is valid JSON with some keys missing (a section,
\* parameters, the stages map, stage entries or their fields), the loaded state
\* has every persisted key with its persisted value and every missing key with
\* its default value.
C4_LoadMergesDefaultsDeep ==
    FreshlyLoadedObject => PlainState(state) = MergedWithDefaults(storage.obj)

\* what the code does: sections, parameters and a missing stages map are
\* default-filled, a persisted stages map is loaded as it is
C4_LoadMergesDefaultsExceptStages ==
    FreshlyLoadedObject => PlainState(state) = MergedWithDefaultsShallowStages(storage.obj)

\* C5: when the persisted value cannot be parsed or merged (invalid JSON, JSON
\* null or another non-object), the constructed store holds exactly the hard-coded
\* default state: the three completion flags false, default parameters and stages.
C5_ParseFailureGivesDefaults ==
    (justLoaded /\ hasStorage /\ storage.kind \in {"invalid", "null", "scalar"})
        => /\ PlainState(state) = HardCodedDefault
           /\ ~canAccessFLMMAnalysis /\ ~canAccessQAAnalysis /\ ~canAccessEvaluationAnalysis

C5_Witness ==
    justLoaded /\ hasStorage /\ storage.kind = "null" /\ PlainState(state) = HardCodedDefault

\* the relation between a state S and the state L loaded from what S persisted as
RoundTripSection(S, L, D) ==
    \A k \in (DOMAIN S) \cup (DOMAIN L) \cup (DOMAIN D) :
        IF k \in DOMAIN S
        THEN k \in DOMAIN L /\ L[k] = S[k]
        ELSE IF k \in DOMAIN D THEN k \in DOMAIN L /\ L[k] = D[k]
        ELSE k \notin DOMAIN L

PersistedForm == IF justLoaded THEN Stringify(state) ELSE storage

\* C3: persisting a reachable state S and loading it in a freshly constructed store
\* gives a state equal to S, except that keys absent from the persisted JSON (those
\* holding undefined in S) have their default values.
C3_RoundTrip ==
    hasStorage =>
        LET L == PlainState(loadState(TRUE, PersistedForm, InitialDefaultState))
            S == PlainState(state)
        IN  \A sec \in Sections : RoundTripSection(S[sec], L[sec], HardCodedDefault[sec])

\* a state whose qa.step is undefined (after resetQA) has been persisted
C3_Witness ==
    /\ hasStorage /\ ~justLoaded
    /\ "step" \in state.qa.u
    /\ storage = Stringify(state)
    /\ state.flmm.v["processCompleted"]

-----------------------------------------------------------------------------
(* App.tsx, Sidebar.tsx, Header: routes and navigation; useWorkflowGuard *)

\* <Route path=...> of App.tsx ("/qa/status" stands for "/qa/status/:taskId/:taskType")
Routes ==
    {"/", "/flmm/create", "/flmm/projects", "/flmm/analysis", "/flmm/questionnaire",
     "/qa/process", "/qa/status", "/qa/results", "/qa/analysis",
     "/eval/workflow", "/eval/analysis"}

\* the paths of the sidebar and header menu entries
MenuRoutes ==
    {"/", "/qa/process", "/qa/analysis", "/flmm/create", "/flmm/projects",
     "/flmm/analysis", "/eval/workflow", "/eval/analysis"}

\* the menu entries whose views the model tells apart
NavRoutes ==
    {"/", "/qa/analysis", "/flmm/create", "/flmm/analysis", "/eval/workflow",
     "/eval/analysis"}

\* redirectPath of the evaluation analysis view's guard, also handleRestart's target
EvalRedirectPath == "/eval/process"

\* the views that call useWorkflowGuard, with the store section their canAccess reads
GuardedViews == [r \in {"/eval/analysis"} |-> "evaluation"]

\* the completion flag of a store section
FlagKey(sec) == IF sec = "evaluation" THEN "workflowCompleted" ELSE "processCompleted"

Flag(st, sec) == st[sec].v[FlagKey(sec)]

\* canAccess() of the view mounted at r
CanAccess(r) ==
    IF r \in DOMAIN GuardedViews THEN Flag(state, GuardedViews[r]) ELSE TRUE

Bump(n) == IF n < MaxShown THEN n + 1 ELSE n

\* message.error(...): one more error notification
messageError(n) == IF n < MaxErrorsShown THEN n + 1 ELSE n

EwMounted == loc = "/eval/workflow"

\* (variant: the cleanup leaves the timer)
noCleanup(poll, inst) == poll

\* the polling effect's cleanup: clearInterval(pollingRef.current), null
effectCleanup(poll, inst) == [poll EXCEPT ![inst] = NoTimer]

\* The guard effect of a view that has just mounted at r (hasShownModal.current is
\* false): Modal.warning is shown when canAccess() is false.
useWorkflowGuard(r) ==
    IF r \in DOMAIN GuardedViews /\ ~CanAccess(r)
    THEN [hasShown |-> TRUE, modal |-> "open", warn |-> 1]
    ELSE [hasShown |-> FALSE, modal |-> "none", warn |-> 0]

\* new EventSource(url) for a task, with the handlers' captured values
OpenStream(task, cap) ==
    [state |-> "open", task |-> task, cap |-> cap, terminalSeen |-> FALSE]

\* eventSource.close()
closeStream(e) ==
    IF e.state = "none" THEN e
    ELSE [state |-> "closed", task |-> e.task, cap |-> NoCapture,
          terminalSeen |-> e.terminalSeen]

QAMounted == loc \in {"/qa/process", "/qa/status"}

\* The router shows the view of path r: the view at loc unmounts (its effect
\* cleanups run: the polling timer is cleared, the event stream closed, the guard's
\* modal destroyed) and the view of r mounts with fresh component state; the QA
\* status view opens the stream of the task in its path.
SwitchView(r) ==
    /\ r = "/eval/workflow" => ewInst < MaxMounts
    /\ flmmOld + flmmCur <= MaxOldCreates
    /\ loc' = r
    /\ pollingRef' = IF EwMounted THEN effectCleanup(pollingRef, ewInst) ELSE pollingRef
    /\ ewInst' = IF r = "/eval/workflow" THEN ewInst + 1 ELSE ewInst
    /\ ewStep' = 0
    /\ ewTaskId' = 0
    /\ ewTaskStatus' = "none"
    /\ ewNotified' = FALSE
    /\ ewCreating' = FALSE
    /\ hasShownModal' = useWorkflowGuard(r).hasShown
    /\ modalInstance' = useWorkflowGuard(r).modal
    /\ shown' = [shown EXCEPT !.warn = useWorkflowGuard(r).warn]
    /\ flmmCur' = 0
    /\ flmmOld' = flmmOld + flmmCur
    /\ qaStep' = 0
    /\ qaPending' = FALSE
    /\ qaTasks' = 0
    /\ qaIndex' = 0
    /\ qaTaskId' = IF r = "/qa/status" THEN 1 ELSE 0
    /\ qaProgress' = NullProgress
    /\ qaLogs' = 0
    /\ qaSummary' = FALSE
    /\ qaProcessing' = (r = "/qa/status")
    /\ es' = IF r = "/qa/status" THEN OpenStream(1, NoCapture) ELSE closeStream(es)
    /\ UNCHANGED <<inflight, creation, backend, cancelSent, barVars, nOps, noticeVars>>

\* a menu entry is clicked (handleMenuClick, handleTopMenuClick): navigate(key)
Navigate(r) ==
    /\ r # loc
    /\ SwitchView(r)
    /\ StoreUnchanged

\* onOk / onCancel of the guard's modal: navigate(redirectPath)
GuardOnOk ==
    /\ modalInstance = "open"
    /\ SwitchView(EvalRedirectPath)
    /\ StoreUnchanged

\* EvalAnalysis.handleRestart: resetEvaluation(); navigate('/eval/process')
handleRestart ==
    /\ loc = "/eval/analysis"
    /\ modalInstance # "open"
    /\ ReplaceSection("evaluation", resetEvaluationValue)
    /\ SwitchView(EvalRedirectPath)

-----------------------------------------------------------------------------
(* EvaluationWorkflow: task creation and status polling *)

InitialInterval == 4000      \* setInterval(fetchStatus, 4000) of the effect
ProcessingInterval == 1000   \* status === 'processing' ? 1000 : 4000
WaitingInterval == 4000

TerminalStatuses == {"completed", "failed"}

\* (variant: one interval whatever the status)
fixedInterval(status) == WaitingInterval

\* currentInterval of fetchStatus
currentInterval(status) ==
    IF status = "processing" THEN ProcessingInterval ELSE WaitingInterval

Timer(interval, task, notif) ==
    [armed |-> TRUE, interval |-> interval, task |-> task, notif |-> notif]

\* a status request: the view instance and closure (taskId, workflowNotified) that
\* sent it, and its response ("sent": none yet)
Request(inst, task, notif, st) == [inst |-> inst, task |-> task, notif |-> notif, st |-> st]

Requests == BagToSet(inflight)

CanIssue(infl) == BagCardinality(infl) < MaxInflight

\* fetchStatus() up to its await: a status request for the closure's task is sent
Issue(infl, inst, task, notif) == infl (+) SetToBag({Request(inst, task, notif, "sent")})

Settle(infl, r) == infl (-) SetToBag({r})

Respond(infl, r, st) == Settle(infl, r) (+) SetToBag({[r EXCEPT !.st = st]})

\* The polling effect re-runs after taskId or workflowNotified changed: the cleanup
\* clears the timer; with a task, fetchStatus() is called and a 4-second timer armed.
PollingEffect(inst, taskId, notif, infl, poll) ==
    IF taskId = 0
    THEN [poll |-> effectCleanup(poll, inst), infl |-> infl]
    ELSE [poll |-> [poll EXCEPT ![inst] = Timer(InitialInterval, taskId, notif)],
          infl |-> Issue(infl, inst, taskId, notif)]

\* stage_progress of a status response, by task status (absent while pending)
StageProgress(status) ==
    IF status = "processing"
    THEN [stage1 |-> Obj([progress |-> 50, status |-> "active"], {})]
    ELSE IF status = "completed"
    THEN [stage1 |-> Obj([key |-> "stage1", progress |-> 100, status |-> "completed",
                          updated_at |-> "2025-01-01"], {})]
    ELSE IF status = "failed"
    THEN [stage1 |-> Obj([status |-> "failed", message |-> "error"], {})]
    ELSE EmptyFn

\* one entry of stagePayload, built from stage_progress[typedKey]
StageSnapshot(typedKey, value) ==
    LET fixed == [key |-> GetOr(value, "key", typedKey),
                  progress |-> GetOr(value, "progress", 0),
                  status |-> GetOr(value, "status", "pending"),
                  enabled |-> GetOr(value, "enabled", TRUE),
                  message |-> GetOr(value, "message", Null),
                  updatedAt |-> GetOr(value, "updated_at", Null)]
    IN  IF Has(value, "label")
        THEN Put(Obj(fixed, {}), "label", value.v["label"])
        ELSE Obj(fixed, {"label"})

stagePayload(status) ==
    [k \in DOMAIN StageProgress(status) |-> StageSnapshot(k, StageProgress(status)[k])]

\* handleNext at step 0 (the form validates): setCurrentStep(currentStep + 1)
handleNext ==
    /\ EwMounted
    /\ ewStep = 0
    /\ ewStep' = 1
    /\ StoreUnchanged
    /\ UNCHANGED <<guardVars, ewInst, ewTaskId, ewTaskStatus, ewNotified, ewCreating,
                   pollingRef, inflight, creation, backend, shown, cancelSent,
                   flmmVars, qaVars, barVars, nOps, noticeVars>>

\* handlePrev (the button is rendered at step 1 only)
handlePrev ==
    /\ EwMounted
    /\ ewStep = 1
    /\ ewStep' = 0
    /\ StoreUnchanged
    /\ UNCHANGED <<guardVars, ewInst, ewTaskId, ewTaskStatus, ewNotified, ewCreating,
                   pollingRef, inflight, creation, backend, shown, cancelSent,
                   flmmVars, qaVars, barVars, nOps, noticeVars>>

\* a threshold or the number of rounds is edited at step 1: the effect on the
\* parameter states calls saveEvaluationParams
changeParams ==
    /\ EwMounted
    /\ ewStep = 1
    /\ \E params \in EvalParamPatches :
         MutateInPlace("evaluation", saveEvaluationParamsOn(state.evaluation, params))
    /\ UNCHANGED <<guardVars, ewVars, flmmVars, qaVars, barVars, nOps, noticeVars>>

\* handleNext at step 1: startEvaluation() up to its first await.  The button
\* ignores clicks while creatingTask (loading).
startEvaluation ==
    /\ EwMounted
    /\ ewStep = 1
    /\ ~ewCreating
    /\ ewCreating' = TRUE
    /\ ewNotified' = FALSE
    /\ MutateInPlace("evaluation", resetEvaluationStagesOn(state.evaluation))
    /\ creation' = [creation EXCEPT ![ewInst] = TRUE]
    /\ LET eff == IF ewNotified
                  THEN PollingEffect(ewInst, ewTaskId, FALSE, inflight, pollingRef)
                  ELSE [poll |-> pollingRef, infl |-> inflight]
       IN  pollingRef' = eff.poll /\ inflight' = eff.infl
    /\ UNCHANGED <<guardVars, ewInst, ewStep, ewTaskId, ewTaskStatus, backend, shown,
                   cancelSent, flmmVars, qaVars, barVars, nOps, noticeVars>>

AbsentTasks == {t \in 1..MaxTasks : backend[t] = "absent"}

\* startEvaluation after createTask resolved: the backend has created task t.  The
\* state setters act only on a mounted view; a new taskId re-runs the polling effect.
createTaskResolved(i) ==
    /\ creation[i]
    /\ AbsentTasks # {}
    /\ LET t == CHOOSE x \in AbsentTasks : \A y \in AbsentTasks : x <= y
           mounted == EwMounted /\ ewInst = i
       IN  /\ backend' = [backend EXCEPT ![t] = "pending"]
           /\ creation' = [creation EXCEPT ![i] = FALSE]
           /\ IF mounted
              THEN /\ CanIssue(inflight)
                   /\ ewTaskId' = t
                   /\ ewTaskStatus' = "none"
                   /\ ewStep' = 2
                   /\ ewCreating' = FALSE
                   /\ LET eff == PollingEffect(i, t, ewNotified, inflight, pollingRef)
                      IN  pollingRef' = eff.poll /\ inflight' = eff.infl
              ELSE UNCHANGED <<ewTaskId, ewTaskStatus, ewStep, ewCreating, pollingRef,
                               inflight>>
    /\ StoreUnchanged
    /\ UNCHANGED <<guardVars, ewInst, ewNotified, shown, cancelSent, flmmVars, qaVars, barVars, nOps, noticeVars>>

\* startEvaluation's catch / finally: the upload or createTask failed,
\* message.error is shown
createTaskRejected(i) ==
    /\ creation[i]
    /\ creation' = [creation EXCEPT ![i] = FALSE]
    /\ ewCreating' = IF EwMounted /\ ewInst = i THEN FALSE ELSE ewCreating
    /\ errorShown' = messageError(errorShown)
    /\ StoreUnchanged
    /\ UNCHANGED <<guardVars, ewInst, ewStep, ewTaskId, ewTaskStatus, ewNotified,
                   pollingRef, inflight, backend, shown, cancelSent, flmmVars, qaVars,
                   barVars, nOps>>

\* the interval timer of view instance i fires: fetchStatus() of the timer's closure
TimerFire(i) ==
    /\ pollingRef[i].armed
    /\ CanIssue(inflight)
    /\ inflight' = Issue(inflight, i, pollingRef[i].task, pollingRef[i].notif)
    /\ StoreUnchanged
    /\ UNCHANGED <<guardVars, ewInst, ewStep, ewTaskId, ewTaskStatus, ewNotified,
                   ewCreating, pollingRef, creation, backend, shown, cancelSent,
                   flmmVars, qaVars, barVars, nOps, noticeVars>>

\* the backend answers a status request (getTaskStatus) with the task's status
Answer(r) ==
    /\ r.st = "sent"
    /\ inflight' = Respond(inflight, r, backend[r.task])
    /\ StoreUnchanged
    /\ UNCHANGED <<guardVars, ewInst, ewStep, ewTaskId, ewTaskStatus, ewNotified,
                   ewCreating, pollingRef, creation, backend, shown, cancelSent,
                   flmmVars, qaVars, barVars, nOps, noticeVars>>

\* a status request fails (network error, HTTP error)
AnswerError(r) ==
    /\ r.st = "sent"
    /\ inflight' = Respond(inflight, r, "error")
    /\ StoreUnchanged
    /\ UNCHANGED <<guardVars, ewInst, ewStep, ewTaskId, ewTaskStatus, ewNotified,
                   ewCreating, pollingRef, creation, backend, shown, cancelSent,
                   flmmVars, qaVars, barVars, nOps, noticeVars>>

\* the evaluation backend works on task t
BackendStep(t) ==
    /\ \/ backend[t] = "pending" /\ backend' = [backend EXCEPT ![t] = "processing"]
       \/ backend[t] = "processing" /\ backend' = [backend EXCEPT ![t] = "completed"]
       \/ backend[t] \in {"pending", "processing"}
            /\ backend' = [backend EXCEPT ![t] = "failed"]
    /\ StoreUnchanged
    /\ UNCHANGED <<guardVars, ewInst, ewStep, ewTaskId, ewTaskStatus, ewNotified,
                   ewCreating, pollingRef, inflight, creation, shown, cancelSent,
                   flmmVars, qaVars, barVars, nOps, noticeVars>>

\* (variant: every terminal status counts as completion)
terminalNotified(status, notif) == status \in TerminalStatuses /\ ~notif

\* status.status === 'completed' && !workflowNotified
completionNotified(status, notif) == status = "completed" /\ ~notif

\* status.status === 'failed' && !workflowNotified
failureNotified(status, notif) == status = "failed" /\ ~notif

\* (variant: the timer is cleared on 'completed' only)
timerKeptOnFailure(cur, status, task, notif) ==
    IF status = "completed" /\ cur.armed THEN NoTimer
    ELSE IF status \notin TerminalStatuses /\ cur.armed
    THEN Timer(currentInterval(status), task, notif)
    ELSE cur

\* the timer branch of fetchStatus: cur is pollingRef.current
timerAfterResponse(cur, status, task, notif) ==
    IF status \in TerminalStatuses /\ cur.armed THEN NoTimer
    ELSE IF status \notin TerminalStatuses /\ cur.armed
    THEN Timer(currentInterval(status), task, notif)
    ELSE cur

\* the evaluation section after fetchStatus's store calls
evaluationAfterResponse(ev, status, task, notif) ==
    LET ev1 == IF DOMAIN StageProgress(status) # {}
               THEN bulkUpdateEvaluationStagesOn(ev, stagePayload(status))
               ELSE ev
    IN  IF completionNotified(status, notif)
        THEN setEvaluationWorkflowCompletedOn(ev1, Some(TaskNames[task]))
        ELSE ev1

\* fetchStatus after its await: the response of request r is handled by the closure
\* that sent it (r.task and r.notif are the closure's taskId and workflowNotified).
fetchStatus(r) ==
    LET mounted == EwMounted /\ ewInst = r.inst
        done == completionNotified(r.st, r.notif)
        failed == failureNotified(r.st, r.notif)
        freed == Settle(inflight, r)
        poll1 == [pollingRef EXCEPT
                    ![r.inst] = timerAfterResponse(pollingRef[r.inst], r.st, r.task, r.notif)]
        rerun == mounted /\ (done \/ failed) /\ ~ewNotified
        eff == IF rerun THEN PollingEffect(r.inst, ewTaskId, TRUE, freed, poll1)
               ELSE [poll |-> poll1, infl |-> freed]
    IN  /\ r.st \notin {"sent", "error"}
        /\ ewTaskStatus' = IF mounted THEN r.st ELSE ewTaskStatus
        /\ IF DOMAIN StageProgress(r.st) # {} \/ done
           THEN MutateInPlace("evaluation",
                    evaluationAfterResponse(state.evaluation, r.st, r.task, r.notif))
           ELSE StoreUnchanged
        /\ ewNotified' = IF mounted /\ (done \/ failed) THEN TRUE ELSE ewNotified
        /\ shown' = [shown EXCEPT
                        !.evalOk[r.task] = IF done THEN Bump(@) ELSE @,
                        !.evalFailed[r.task] = IF failed THEN Bump(@) ELSE @]
        /\ pollingRef' = eff.poll
        /\ inflight' = eff.infl
        /\ UNCHANGED <<guardVars, ewInst, ewStep, ewTaskId, ewCreating, creation, backend,
                       cancelSent, flmmVars, qaVars, barVars, nOps, noticeVars>>

\* fetchStatus's catch: the request failed, only console.error
fetchStatusCatch(r) ==
    /\ r.st = "error"
    /\ inflight' = Settle(inflight, r)
    /\ StoreUnchanged
    /\ UNCHANGED <<guardVars, ewInst, ewStep, ewTaskId, ewTaskStatus, ewNotified,
                   ewCreating, pollingRef, creation, backend, shown, cancelSent,
                   flmmVars, qaVars, barVars, nOps, noticeVars>>

-----------------------------------------------------------------------------
(* FLMM/Create.tsx: project creation *)

\* handleSubmit: createProjectMutation.mutate(data) unless one is pending
handleSubmit ==
    /\ loc = "/flmm/create"
    /\ flmmCur = 0
    /\ flmmCur' = 1
    /\ StoreUnchanged
    /\ UNCHANGED <<guardVars, ewVars, flmmOld, qaVars, barVars, nOps, noticeVars>>

\* a creation request of the mounted view (cur) or of an unmounted one ends
CreationEnds(cur) ==
    IF cur THEN flmmCur > 0 /\ flmmCur' = flmmCur - 1 /\ UNCHANGED flmmOld
    ELSE flmmOld > 0 /\ flmmOld' = flmmOld - 1 /\ UNCHANGED flmmCur

\* createProjectMutation.onSuccess: setFLMMProcessCompleted(data.project_id)
createProjectOnSuccess(cur) ==
    /\ CreationEnds(cur)
    /\ MutateInPlace("flmm", setFLMMProcessCompletedOn(state.flmm, Some("p1")))
    /\ UNCHANGED <<guardVars, ewVars, qaVars, barVars, nOps, noticeVars>>

\* createProjectMutation.onError: message.error
createProjectOnError(cur) ==
    /\ CreationEnds(cur)
    /\ errorShown' = messageError(errorShown)
    /\ StoreUnchanged
    /\ UNCHANGED <<guardVars, ewVars, qaVars, barVars, nOps>>

-----------------------------------------------------------------------------
(* The application: the views driving the store *)

\* what an earlier session may have left in browser storage
SessionStorages ==
    {SavedNone,
     Stringify([InitialDefaultState EXCEPT
                  !.evaluation = setEvaluationWorkflowCompletedOn(@, Some("t0"))])}

InitApp ==
    /\ \E saved \in SessionStorages : Construct(TRUE, saved)
    /\ nOps = 0
    /\ AppIdle

NextApp ==
    \/ \E r \in NavRoutes : Navigate(r)
    \/ GuardOnOk
    \/ handleRestart
    \/ handleNext
    \/ handlePrev
    \/ changeParams
    \/ startEvaluation
    \/ \E i \in 1..MaxMounts : createTaskResolved(i)
    \/ \E i \in 1..MaxMounts : createTaskRejected(i)
    \/ \E i \in 1..MaxMounts : TimerFire(i)
    \/ \E r \in Requests : Answer(r)
    \/ \E r \in Requests : AnswerError(r)
    \/ \E t \in 1..MaxTasks : BackendStep(t)
    \/ \E r \in Requests : fetchStatus(r)
    \/ \E r \in Requests : fetchStatusCatch(r)
    \/ handleSubmit
    \/ \E cur \in BOOLEAN : createProjectOnSuccess(cur)
    \/ \E cur \in BOOLEAN : createProjectOnError(cur)

SpecApp == InitApp /\ [][NextApp]_vars

-----------------------------------------------------------------------------
(* Workflow gates *)

\* the analysis view of each module and the store section holding its flag
AnalysisViews ==
    [r \in {"/flmm/analysis", "/qa/analysis", "/eval/analysis"} |->
        IF r = "/flmm/analysis" THEN "flmm"
        ELSE IF r = "/qa/analysis" THEN "qa" ELSE "evaluation"]

Opens(r) == loc # r /\ loc' = r

\* the view just opened shows the access warning, whose buttons redirect
DeniedOnOpen == modalInstance' = "open"

\* C1: for each of the three modules, whenever a user opens the module's analysis
\* view, access is denied (warning shown, redirect on dismissal) if and only if
\* the module's completion flag is false at that moment.
C1_GateDeniesIffFlagFalse ==
    [][\A r \in DOMAIN AnalysisViews :
          Opens(r) => (DeniedOnOpen <=> ~Flag(state', AnalysisViews[r]))]_vars

\* the same for the one view that calls the guard
C1_EvaluationGate ==
    [][Opens("/eval/analysis") => (DeniedOnOpen <=> ~Flag(state', "evaluation"))]_vars

Rises(sec) == ~Flag(state, sec) /\ Flag(state', sec)

Falls(sec) == Flag(state, sec) /\ ~Flag(state', sec)

\* C2: evaluation.workflowCompleted becomes true only in a step that handles a status
\* response 'completed' for the task the request's view monitored (and records that
\* task's id); flmm.processCompleted only in the success callback of a project
\* creation; qa.processCompleted never; and a flag that is true becomes false only
\* by the module's reset (handleRestart calls resetEvaluation).
C2_FlagsFollowCompletion ==
    [][/\ Rises("evaluation") =>
            \E r \in Requests :
                /\ r.st = "completed"
                /\ backend[r.task] = "completed"
                /\ fetchStatus(r)
                /\ state'.evaluation.v["evaluationId"] = TaskNames[r.task]
       /\ Rises("flmm") => \E cur \in BOOLEAN : createProjectOnSuccess(cur)
       /\ ~Rises("qa")
       /\ Falls("evaluation") => handleRestart
       /\ ~Falls("flmm")
       /\ ~Falls("qa")]_vars

\* both gates have been opened by this session's own work
C2_Witness ==
    /\ Flag(state, "evaluation")
    /\ Has(state.evaluation, "evaluationId")
    /\ state.evaluation.v["evaluationId"] = TaskNames[1]
    /\ Flag(state, "flmm")

-----------------------------------------------------------------------------
(* QA/Process.tsx and QAStatus: task start and the progress event stream *)

MaxQATasks == 2      \* tasks a generation request returns
MaxLogs == 2         \* log lines counted

ProgressInputs ==
    {ProgressData(40, FALSE), ProgressData(95, FALSE), ProgressData(100, TRUE)}

\* data of a 'complete' event: unparsable, or its status and whether it has a summary
BadData == [ok |-> FALSE, status |-> "", summary |-> FALSE]
CompleteData(status, summary) == [ok |-> TRUE, status |-> status, summary |-> summary]
CompleteInputs ==
    {BadData, CompleteData("completed", TRUE), CompleteData("completed", FALSE),
     CompleteData("failed", FALSE), CompleteData("cancelled", FALSE)}

\* getCurrentStage() over the progressData of its render (taskType is 'generate')
getCurrentStage(pd) == IF pd.null THEN 1 ELSE IF pd.stage2 THEN 2 ELSE 1

\* currentStage === 2 || (progressData?.progress ?? 0) >= 95
isStage2Complete(pd) ==
    getCurrentStage(pd) = 2 \/ (IF pd.null THEN 0 ELSE pd.progress) >= 95

QAProcessIdle ==
    UNCHANGED <<storeVars, nOps, guardVars, ewVars, flmmVars, barVars, noticeVars>>

\* QAProcess.handleNext at step 0
qaHandleNext ==
    /\ loc = "/qa/process"
    /\ qaStep = 0
    /\ qaStep' = 1
    /\ QAProcessIdle
    /\ UNCHANGED <<qaPending, qaTasks, qaIndex, qaTaskId, qaProgress, qaLogs, qaSummary,
                   qaProcessing, es>>

\* QAProcess.handlePrev (rendered at step 1)
qaHandlePrev ==
    /\ loc = "/qa/process"
    /\ qaStep = 1
    /\ qaStep' = 0
    /\ QAProcessIdle
    /\ UNCHANGED <<qaPending, qaTasks, qaIndex, qaTaskId, qaProgress, qaLogs, qaSummary,
                   qaProcessing, es>>

\* handleNext at step 1: handleStartGenerate() -> startGenerateMutation.mutate(files)
handleStartGenerate ==
    /\ loc = "/qa/process"
    /\ qaStep = 1
    /\ ~qaPending
    /\ qaPending' = TRUE
    /\ QAProcessIdle
    /\ UNCHANGED <<qaStep, qaTasks, qaIndex, qaTaskId, qaProgress, qaLogs, qaSummary,
                   qaProcessing, es>>

\* The SSE effect of QAProcess after a render with the given taskId and step: the
\* cleanup closes the stream of the ref; a stream is opened at step 2 with a task.
\* Its handlers capture progressData, currentTaskIndex and allTasks of that render.
sseEffect(e, taskId, step, pd, index, tasks) ==
    IF taskId = 0 \/ step # 2 THEN closeStream(e)
    ELSE OpenStream(taskId, [progress |-> pd, index |-> index, tasks |-> tasks])

\* startGenerateMutation.onSuccess with n tasks
startGenerateOnSuccess(n) ==
    /\ loc = "/qa/process"
    /\ qaPending
    /\ qaPending' = FALSE
    /\ IF n > 0
       THEN /\ qaTasks' = n
            /\ qaIndex' = 0
            /\ qaTaskId' = 1
            /\ qaProcessing' = TRUE
            /\ qaStep' = 2
            /\ es' = sseEffect(es, 1, 2, qaProgress, 0, n)
       ELSE UNCHANGED <<qaTasks, qaIndex, qaTaskId, qaProcessing, qaStep, es>>
    /\ QAProcessIdle
    /\ UNCHANGED <<qaProgress, qaLogs, qaSummary>>

\* startGenerateMutation.onError: message.error is shown
startGenerateOnError ==
    /\ loc = "/qa/process"
    /\ qaPending
    /\ qaPending' = FALSE
    /\ errorShown' = messageError(errorShown)
    /\ UNCHANGED <<storeVars, nOps, guardVars, ewVars, flmmVars, barVars>>
    /\ UNCHANGED <<qaStep, qaTasks, qaIndex, qaTaskId, qaProgress, qaLogs, qaSummary,
                   qaProcessing, es>>

\* the 'return to configuration' buttons of step 3 (shown when not processing)
returnToConfig ==
    /\ loc = "/qa/process"
    /\ qaStep = 2
    /\ ~qaProcessing
    /\ qaStep' = 1
    /\ qaTaskId' = 0
    /\ qaProgress' = NullProgress
    /\ qaLogs' = 0
    /\ qaSummary' = FALSE
    /\ es' = sseEffect(es, 0, 1, NullProgress, qaIndex, qaTasks)
    /\ QAProcessIdle
    /\ UNCHANGED <<qaPending, qaTasks, qaIndex, qaProcessing>>

\* An event is dispatched only by an EventSource that is not closed.
Delivers == QAMounted /\ es.state = "open"

\* 'progress' listener of both views (data parses): setProgressData(data)
sseProgress(data) ==
    /\ Delivers
    /\ qaProgress' = data
    /\ QAProcessIdle
    /\ UNCHANGED <<qaStep, qaPending, qaTasks, qaIndex, qaTaskId, qaLogs, qaSummary,
                   qaProcessing, es>>

\* 'log' listener of both views (data parses): setLogs(prev => [...prev, log])
sseLog ==
    /\ Delivers
    /\ qaLogs < MaxLogs
    /\ qaLogs' = qaLogs + 1
    /\ QAProcessIdle
    /\ UNCHANGED <<qaStep, qaPending, qaTasks, qaIndex, qaTaskId, qaProgress, qaSummary,
                   qaProcessing, es>>

\* a well-formed 'complete' event or an error has been delivered to the stream
Seen(e) == [e EXCEPT !.terminalSeen = TRUE]

\* 'complete' listener of QAProcess
processOnComplete(data) ==
    /\ loc = "/qa/process"
    /\ Delivers
    /\ QAProcessIdle
    /\ UNCHANGED <<qaStep, qaPending, qaTasks>>
    /\ IF ~data.ok
       THEN \* JSON.parse throws: caught, logged
            /\ UNCHANGED <<es, qaIndex, qaTaskId, qaProgress, qaLogs, qaSummary, qaProcessing>>
       ELSE IF data.status = "completed" /\ ~isStage2Complete(es.cap.progress)
       THEN \* taken for the end of stage 1: return
            /\ es' = Seen(es)
            /\ UNCHANGED <<qaIndex, qaTaskId, qaProgress, qaLogs, qaSummary, qaProcessing>>
       ELSE IF data.status = "completed" /\ es.cap.index < es.cap.tasks - 1
       THEN \* next task: close, clear progress and logs, the effect opens its stream
            /\ qaProgress' = NullProgress
            /\ qaLogs' = 0
            /\ qaIndex' = es.cap.index + 1
            /\ qaTaskId' = es.cap.index + 2
            /\ es' = IF es.cap.index + 2 = qaTaskId THEN closeStream(Seen(es))
                     ELSE sseEffect(closeStream(Seen(es)), es.cap.index + 2, qaStep,
                                    NullProgress, es.cap.index + 1, qaTasks)
            /\ UNCHANGED <<qaSummary, qaProcessing>>
       ELSE IF data.status = "completed"
       THEN \* all tasks done
            /\ qaProcessing' = FALSE
            /\ qaSummary' = (data.summary \/ qaSummary)
            /\ es' = closeStream(Seen(es))
            /\ UNCHANGED <<qaIndex, qaTaskId, qaProgress, qaLogs>>
       ELSE IF data.status = "failed"
       THEN /\ qaProcessing' = FALSE
            /\ es' = closeStream(Seen(es))
            /\ UNCHANGED <<qaIndex, qaTaskId, qaProgress, qaLogs, qaSummary>>
       ELSE \* unknown status
            /\ es' = closeStream(Seen(es))
            /\ UNCHANGED <<qaIndex, qaTaskId, qaProgress, qaLogs, qaSummary, qaProcessing>>

\* 'complete' listener of QAStatus
statusOnComplete(data) ==
    /\ loc = "/qa/status"
    /\ Delivers
    /\ QAProcessIdle
    /\ UNCHANGED <<qaStep, qaPending, qaTasks, qaIndex, qaTaskId, qaProgress, qaLogs>>
    /\ IF ~data.ok
       THEN UNCHANGED <<es, qaSummary, qaProcessing>>
       ELSE /\ qaProcessing' = FALSE
            /\ qaSummary' = ((data.status = "completed" /\ data.summary) \/ qaSummary)
            /\ es' = closeStream(Seen(es))

\* An 'error' event (a connection error, or an event named error sent by the server):
\* the 'error' listener runs, then onerror.  In both views the listener sets
\* isProcessing to false and closes the stream; onerror closes it again.
sseOnError ==
    /\ Delivers
    /\ qaProcessing' = FALSE
    /\ es' = closeStream(Seen(es))
    /\ QAProcessIdle
    /\ UNCHANGED <<qaStep, qaPending, qaTasks, qaIndex, qaTaskId, qaProgress, qaLogs,
                   qaSummary>>

\* QAStatus.handleBack: navigate('/qa/process')
handleBack ==
    /\ loc = "/qa/status"
    /\ SwitchView("/qa/process")
    /\ StoreUnchanged

QARoutes == {"/", "/qa/process", "/qa/status"}

InitQA ==
    /\ Construct(TRUE, SavedNone)
    /\ nOps = 0
    /\ AppIdle

QASteps ==
    \/ handleBack
    \/ qaHandleNext
    \/ qaHandlePrev
    \/ handleStartGenerate
    \/ \E n \in 0..MaxQATasks : startGenerateOnSuccess(n)
    \/ startGenerateOnError
    \/ returnToConfig
    \/ \E data \in ProgressInputs : sseProgress(data)
    \/ sseLog
    \/ \E data \in CompleteInputs : processOnComplete(data)
    \/ \E data \in CompleteInputs : statusOnComplete(data)
    \/ sseOnError

NextQA ==
    \/ \E r \in QARoutes : Navigate(r)
    \/ QASteps

SpecQA == InitQA /\ [][NextQA]_vars

\* C6: once a terminal event (a well-formed 'complete' event or a connection error)
\* has been delivered to a view's event stream, that stream is closed (so that no
\* later event reaches the view).
C6_ClosedOnTerminalEvent == es.terminalSeen => es.state # "open"

-----------------------------------------------------------------------------
(* The monitoring views alone: evaluation polling, and polling with the streams *)

PollSteps ==
    \/ handleNext
    \/ handlePrev
    \/ startEvaluation
    \/ \E i \in 1..MaxMounts : createTaskResolved(i)
    \/ \E i \in 1..MaxMounts : createTaskRejected(i)
    \/ \E i \in 1..MaxMounts : TimerFire(i)
    \/ \E r \in Requests : Answer(r)
    \/ \E r \in Requests : AnswerError(r)
    \/ \E t \in 1..MaxTasks : BackendStep(t)
    \/ \E r \in Requests : fetchStatus(r)
    \/ \E r \in Requests : fetchStatusCatch(r)

PollRoutes == {"/", "/eval/workflow"}

NextPoll ==
    \/ \E r \in PollRoutes : Navigate(r)
    \/ PollSteps

\* Timers fire, responses that arrived are handled, and of the requests sent again
\* and again some are answered.
PollFairness ==
    /\ WF_vars(\E i \in 1..MaxMounts : TimerFire(i))
    /\ WF_vars(\E r \in Requests : fetchStatus(r))
    /\ WF_vars(\E r \in Requests : fetchStatusCatch(r))
    /\ SF_vars(\E r \in Requests : Answer(r))

SpecPoll == InitQA /\ [][NextPoll]_vars /\ PollFairness

MonitorRoutes == {"/", "/eval/workflow", "/qa/process", "/qa/status"}

NextMonitor ==
    \/ \E r \in MonitorRoutes : Navigate(r)
    \/ PollSteps
    \/ QASteps

SpecMonitor == InitQA /\ [][NextMonitor]_vars

-----------------------------------------------------------------------------
(* Polling: failure, teardown, intervals *)

\* the mounted workflow view shows the status 'failed' of its task
FailedReported(i) == EwMounted /\ ewInst = i /\ ewTaskStatus = "failed"

\* no timer of view instance i is armed and no status request of it is under way
PollingStopped(i) == ~pollingRef[i].armed /\ \A r \in Requests : r.inst # i

Unmounted(i) == ~(EwMounted /\ ewInst = i)

\* C8: an unmounted workflow view has no armed timer, whatever responses arrive
\* after the unmount; when no QA view is mounted no event stream is open; and no
\* cancel request is ever sent.
C8_UnmountTearsDown ==
    /\ \A i \in 1..MaxMounts : Unmounted(i) => ~pollingRef[i].armed
    /\ ~QAMounted => es.state # "open"
    /\ ~cancelSent

\* both kinds of view have been closed while monitoring: a response of the workflow
\* view is still to be handled, and the stream of the QA view has been closed
C8_Witness ==
    /\ loc = "/"
    /\ \E r \in Requests : r.st = "processing" /\ Unmounted(r.inst)
    /\ es.state = "closed"
    /\ ~es.terminalSeen

\* C9: a timer that becomes armed has the 4-second interval; and when the response
\* of a status request with a non-terminal status is handled while the view's timer
\* is armed, the timer is armed afterwards with 1 second if the status is
\* 'processing' and with 4 seconds otherwise.
C9_PollingIntervals ==
    [][\A i \in 1..MaxMounts :
          /\ (~pollingRef[i].armed /\ pollingRef'[i].armed)
                => pollingRef'[i].interval = 4000
          /\ \A r \in Requests :
                (r.inst = i /\ fetchStatus(r) /\ r.st \notin {"completed", "failed"}
                            /\ pollingRef[i].armed)
                => /\ pollingRef'[i].armed
                   /\ pollingRef'[i].interval = IF r.st = "processing" THEN 1000 ELSE 4000]_vars

C9_Witness ==
    \E i \in 1..MaxMounts :
        /\ pollingRef[i].armed
        /\ pollingRef[i].interval = 1000
        /\ ewTaskStatus = "processing"

-----------------------------------------------------------------------------
(* Progress bars of the QA process view and of the evaluation workflow view *)

\* x ?? d, with a negative number standing for null / undefined
Opt(x, d) == IF x < 0 THEN d ELSE x

\* Math.round(a / b) for a >= 0, b > 0
RoundDiv(a, b) == (2 * a + b) \div (2 * b)

\* Math.round(n / d * 100)
RoundPercent(n, d) == RoundDiv(100 * n, d)

\* QAProcess, file bar: all files' share done plus the current file's progress
qaFileBar(view, r) ==
    IF view.tasks > 1
    THEN RoundDiv(100 * view.index + Opt(r.progress, 0), view.tasks)
    ELSE Opt(r.progress, 0)

\* QAProcess, stage bar: Math.round(progressData.progress || 0)
qaStageBar(r) == Opt(r.progress, 0)

\* QAProcess, step bar: questions done of the step, else the step's percentage,
\* else the overall progress
qaStepBar(r) ==
    IF Opt(r.total_questions, 0) > 0
    THEN RoundPercent(Opt(r.current_question, 0), Opt(r.total_questions, 1))
    ELSE Opt(r.step_progress_percent, Opt(r.progress, 0))

\* stageMap[taskStatus.step_progress.current_step] || 1
stageMap(step) ==
    IF step = "stage1_infer" THEN 1
    ELSE IF step = "stage1_eval" THEN 2
    ELSE IF step = "stage2_infer" THEN 3
    ELSE IF step = "stage2_eval" THEN 4
    ELSE IF step = "analysis" THEN 5
    ELSE 1

\* x || 1 for a number
OrOne(x) == IF x = 0 THEN 1 ELSE x

\* (variant: the current file's stages are left out)
evalFileBarNoStages(r) ==
    RoundDiv(500 * (OrOne(r.current_file) - 1) + r.step_progress_percent,
             5 * OrOne(r.total_files))

\* EvaluationWorkflow, file bar: Math.round(overallFileProgress)
evalFileBar(r) ==
    RoundDiv(500 * (OrOne(r.current_file) - 1) + 100 * (stageMap(r.current_step) - 1)
                 + r.step_progress_percent,
             5 * OrOne(r.total_files))

\* EvaluationWorkflow, stage bar: Math.round(overallProgress)
evalStageBar(r) ==
    RoundDiv(100 * (stageMap(r.current_step) - 1) + r.step_progress_percent, 5)

QAReports ==
    [kind : {"qa"}, progress : {-1, 40, 45, 100}, total_questions : {-1, 10},
     current_question : {0, 1, 9}, step_progress_percent : {-1, 0, 80}]

EvalReports ==
    [kind : {"eval"}, progress : {10, 60}, current_file : {0, 1, 2}, total_files : {2},
     current_step : {"stage1_infer", "stage1_eval", "analysis", "other"},
     step_progress_percent : {0, 50, 100}]

Panels ==
    {[view |-> "eval", tasks |-> 0, index |-> 0]}
        \cup {[view |-> "qa", tasks |-> n, index |-> i] :
                 n \in 1..MaxQATasks, i \in 0..(MaxQATasks - 1)}

\* the panel of a task is on screen, nothing reported yet
InitBars ==
    /\ Construct(TRUE, SavedNone)
    /\ nOps = 0
    /\ \E v \in {w \in Panels : w.view = "eval" \/ w.index < w.tasks} :
         /\ barView = v
         /\ loc = IF v.view = "qa" THEN "/qa/process" ELSE "/eval/workflow"
    /\ barCur = NoReport
    /\ barPrev = NoReport
    /\ errorShown = 0
    /\ hasShownModal = FALSE /\ modalInstance = "none"
    /\ ewInst = 0 /\ ewStep = 0 /\ ewTaskId = 0 /\ ewTaskStatus = "none"
    /\ ewNotified = FALSE /\ ewCreating = FALSE
    /\ pollingRef = [i \in 1..MaxMounts |-> NoTimer]
    /\ inflight = EmptyBag
    /\ creation = [i \in 1..MaxMounts |-> FALSE]
    /\ backend = [t \in 1..MaxTasks |-> "absent"]
    /\ shown = NothingShown
    /\ cancelSent = FALSE
    /\ flmmCur = 0 /\ flmmOld = 0
    /\ qaStep = 0 /\ qaPending = FALSE /\ qaTasks = 0 /\ qaIndex = 0 /\ qaTaskId = 0
    /\ qaProgress = NullProgress /\ qaLogs = 0 /\ qaSummary = FALSE
    /\ qaProcessing = FALSE /\ es = NoStream

BarsIdle ==
    UNCHANGED <<storeVars, nOps, guardVars, ewVars, flmmVars, qaVars, barView, noticeVars>>

\* a 'progress' event of the task: setProgressData(data), the bars are rendered
setProgressData(data) ==
    /\ barView.view = "qa"
    /\ barPrev' = barCur
    /\ barCur' = data
    /\ BarsIdle

\* a status response of the task: setTaskStatus(status), the bars are rendered
setTaskStatus(status) ==
    /\ barView.view = "eval"
    /\ barPrev' = barCur
    /\ barCur' = status
    /\ BarsIdle

NextBars ==
    \/ \E data \in QAReports : setProgressData(data)
    \/ \E status \in EvalReports : setTaskStatus(status)

SpecBars == InitBars /\ [][NextBars]_vars

-----------------------------------------------------------------------------
(* Progress rendering *)

BothReports(kind) == barPrev.kind = kind /\ barCur.kind = kind

\* the backend reported an overall progress p1 and then p2 with p1 <= p2
ProgressOrdered ==
    /\ barPrev.progress >= 0
    /\ barCur.progress >= 0
    /\ barPrev.progress <= barCur.progress

\* a <= b for triples / pairs in dictionary order
LexLeq3(a1, a2, a3, b1, b2, b3) ==
    \/ a1 < b1
    \/ a1 = b1 /\ a2 < b2
    \/ a1 = b1 /\ a2 = b2 /\ a3 <= b3

LexLeq2(a1, a2, b1, b2) == a1 < b1 \/ (a1 = b1 /\ a2 <= b2)

\* C10 (as stated): within one task, when the backend reports progress p1 and
\* later p2 with p1 <= p2, none of the displayed percentages (QA file, stage
\* and step bars; evaluation file and stage bars) is smaller after p2 than
\* after p1.
C10_BarsFollowProgress ==
    /\ (BothReports("qa") /\ ProgressOrdered) =>
           /\ qaFileBar(barView, barPrev) <= qaFileBar(barView, barCur)
           /\ qaStageBar(barPrev) <= qaStageBar(barCur)
           /\ qaStepBar(barPrev) <= qaStepBar(barCur)
    /\ (BothReports("eval") /\ ProgressOrdered) =>
           /\ evalFileBar(barPrev) <= evalFileBar(barCur)
           /\ evalStageBar(barPrev) <= evalStageBar(barCur)

\* C10 (amended): within one task every displayed percentage is non-decreasing
\* in the reported fields it is computed from: the QA file and stage bars in
\* the overall progress; the QA step bar in the current question of a step
\* with the same positive question total, or else in the step percentage; the
\* evaluation file bar in (file, stage, stage percentage) for the same file
\* total; the evaluation stage bar in (stage, stage percentage).
C10_BarsFollowTheirInputs ==
    /\ (BothReports("qa") /\ Opt(barPrev.progress, 0) <= Opt(barCur.progress, 0)) =>
           /\ qaFileBar(barView, barPrev) <= qaFileBar(barView, barCur)
           /\ qaStageBar(barPrev) <= qaStageBar(barCur)
    /\ ( /\ BothReports("qa")
         /\ barPrev.total_questions > 0
         /\ barPrev.total_questions = barCur.total_questions
         /\ barPrev.current_question <= barCur.current_question ) =>
           qaStepBar(barPrev) <= qaStepBar(barCur)
    /\ ( /\ BothReports("qa")
         /\ barPrev.total_questions <= 0 /\ barCur.total_questions <= 0
         /\ barPrev.step_progress_percent >= 0
         /\ barPrev.step_progress_percent <= barCur.step_progress_percent ) =>
           qaStepBar(barPrev) <= qaStepBar(barCur)
    /\ ( /\ BothReports("eval")
         /\ barPrev.total_files = barCur.total_files
         /\ LexLeq3(OrOne(barPrev.current_file), stageMap(barPrev.current_step),
                    barPrev.step_progress_percent,
                    OrOne(barCur.current_file), stageMap(barCur.current_step),
                    barCur.step_progress_percent) ) =>
           evalFileBar(barPrev) <= evalFileBar(barCur)
    /\ ( /\ BothReports("eval")
         /\ LexLeq2(stageMap(barPrev.current_step), barPrev.step_progress_percent,
                    stageMap(barCur.current_step), barCur.step_progress_percent) ) =>
           evalStageBar(barPrev) <= evalStageBar(barCur)

\* the evaluation moved on to the next stage of the same file: the stage
\* percentage fell back, the file bar did not
C10_Witness ==
    /\ BothReports("eval")
    /\ barPrev.current_file = barCur.current_file
    /\ barPrev.total_files = barCur.total_files
    /\ stageMap(barPrev.current_step) < stageMap(barCur.current_step)
    /\ barPrev.step_progress_percent > barCur.step_progress_percent
    /\ evalFileBar(barPrev) <= evalFileBar(barCur)

-----------------------------------------------------------------------------
(* Error notifications *)

\* this step shows an error notification (or the counter is at its bound)
ErrorNotified == errorShown' > errorShown \/ errorShown = MaxErrorsShown

\* the handlers of a failed upload / task creation and of a failed generation start
CreationFailureHandled ==
    \/ \E i \in 1..MaxMounts : createTaskRejected(i)
    \/ startGenerateOnError

\* the handler of a failed status poll
PollFailureHandled == \E r \in Requests : fetchStatusCatch(r)

\* C11: every failed HTTP call of a workflow (file upload, evaluation task
\* creation, QA generation start, status poll) results in a user-facing error
\* notification.
C11_FailedCallsNotified ==
    [][(CreationFailureHandled \/ PollFailureHandled) => ErrorNotified]_vars

\* (holds) the same without the status poll
C11_FailedCreationsNotified == [][CreationFailureHandled => ErrorNotified]_vars

-----------------------------------------------------------------------------
(* Project creation requests *)

\* creation requests sent and not yet answered
CreationsPending == flmmCur + flmmOld

\* this step sends a creation request
CreationSent == CreationsPending' > CreationsPending

\* C12: a project-creation request is sent only as the direct result of a user
\* submit performed while no creation request is pending: a failed request is
\* never re-sent automatically and a submit during a pending request sends nothing.
C12_NoDuplicateCreation ==
    [][CreationSent => (handleSubmit /\ CreationsPending = 0)]_vars

\* (holds) ... while no request of the mounted page is pending
C12_NoDuplicateCreationPerMount ==
    [][CreationSent => (handleSubmit /\ flmmCur = 0)]_vars

-----------------------------------------------------------------------------
(* The persisted record *)

\* the store has been mutated since it was constructed, over an available storage
MutatedOverStorage == hasStorage /\ ~justLoaded

\* C13: after every store mutation (storage available and writable) the value
\* stored under the key is the JSON serialisation of the store's current state,
\* an object whose top-level keys are exactly flmm, qa and evaluation.
C13_StorageMirrorsState ==
    MutatedOverStorage =>
        /\ storage = Stringify(state)
        /\ storage.kind = "object"
        /\ DOMAIN storage.obj = {"flmm", "qa", "evaluation"}

\* a store constructed over a partial record has been mutated: the record now has
\* all three sections and the mutation in it
C13_Witness ==
    /\ MutatedOverStorage
    /\ nOps = 1
    /\ state.qa.v["params"].v["numPairs"] = 10
    /\ storage.obj["qa"]["params"]["numPairs"] = 10
    /\ storage.obj["flmm"]["processCompleted"]

-----------------------------------------------------------------------------
(* QAProcess: the end of a task *)

\* the page's current task has reached stage 2 or reported a progress of 95 or
\* more (progressData as the page displays it)
TaskAtStage2 == isStage2Complete(qaProgress)

\* the 'complete' listener of QAProcess handles a 'completed' event for a task
\* that has reached stage 2
CompletedAtStage2(data) ==
    /\ processOnComplete(data)
    /\ data.ok
    /\ data.status = "completed"
    /\ TaskAtStage2

\* C14: on the QA process page, a 'complete' event with status 'completed' for the
\* last (or only) task, after that task has reached stage 2 or reported progress
\* of at least 95, sets isProcessing to false, stores the summary if one is given
\* and closes the stream.
C14_LastTaskCompletes ==
    [][\A data \in CompleteInputs :
         (CompletedAtStage2(data) /\ qaIndex = qaTasks - 1) =>
             /\ ~qaProcessing'
             /\ (data.summary => qaSummary')
             /\ es'.state = "closed"]_vars

\* C15: with N > 1 tasks, each time the current task i < N-1 is reported completed
\* at stage 2, its stream is closed, progress and logs are cleared and monitoring
\* moves to task i+1; currentTaskIndex only ever increases by one and stays
\* within 0..N-1.
C15_TasksInSequence ==
    /\ [][\A data \in CompleteInputs :
            (CompletedAtStage2(data) /\ qaIndex < qaTasks - 1) =>
                /\ qaIndex' = qaIndex + 1
                /\ qaTaskId' = qaTaskId + 1
                /\ qaProgress' = NullProgress
                /\ qaLogs' = 0
                /\ es'.state = "open"
                /\ es'.task = qaTaskId']_vars
    /\ [][(loc = "/qa/process" /\ loc' = loc /\ qaTasks' = qaTasks /\ qaIndex' # qaIndex)
             => qaIndex' = qaIndex + 1]_vars
    /\ [](qaTasks > 0 => qaIndex \in 0..(qaTasks - 1))

\* (holds) the index never leaves 0: no task after the first is ever monitored
C15_IndexStaysAtFirst == qaIndex = 0 /\ qaTaskId \in {0, 1}

-----------------------------------------------------------------------------
(* EvaluationWorkflow: side effects of the terminal status *)

\* C16: for each evaluation task the completion side effects (the store call
\* setEvaluationWorkflowCompleted(taskId) with the success message) and the
\* failure message each occur at most once, also with several status requests in
\* flight or a response arriving after the polling effect re-ran.
C16_TerminalEffectsOnce ==
    \A t \in 1..MaxTasks : shown.evalOk[t] <= 1 /\ shown.evalFailed[t] <= 1

\* (holds) a closure that has seen workflowNotified true repeats nothing
C16_NotifiedClosureSilent ==
    [][\A r \in Requests : (fetchStatus(r) /\ r.notif) => shown' = shown]_vars

-----------------------------------------------------------------------------
(* EvaluationWorkflow: late responses *)

\* the mounted view has handled a terminal response of its task, and its polling
\* has stopped
StoppedAfterTerminal ==
    /\ EwMounted
    /\ ewTaskId # 0
    /\ ewNotified
    /\ PollingStopped(ewInst)

\* the stage snapshots in the store are those of a response with this status
StagesOf(status) ==
    \A k \in DOMAIN stagePayload(status) :
        /\ Has(state.evaluation.v["stages"], k)
        /\ state.evaluation.v["stages"].v[k].v["status"] = stagePayload(status)[k].v["status"]
        /\ state.evaluation.v["stages"].v[k].v["progress"]
               = stagePayload(status)[k].v["progress"]

\* C17: once a terminal status of an evaluation task has been displayed, a late
\* response with an older non-terminal status never replaces it: whenever polling
\* has stopped for the task of the mounted view, the displayed status and the
\* stored stage snapshots are those of the terminal response.
C17_TerminalStatusKept ==
    StoppedAfterTerminal =>
        /\ ewTaskStatus \in TerminalStatuses
        /\ StagesOf(ewTaskStatus)

\* (holds) status and stage snapshots are written by the same response
C17_StagesFollowDisplayedStatus ==
    (StoppedAfterTerminal /\ ewTaskStatus \in TerminalStatuses) => StagesOf(ewTaskStatus)

-----------------------------------------------------------------------------
(* QAProcess: connection errors *)

\* The stream of the QA process page reports a connection error while the page is
\* processing.  Such an 'error' event carries no data: the listener skips its
\* payload branch, and the step is that of sseOnError.
ConnectionErrorWhileProcessing ==
    /\ loc = "/qa/process"
    /\ qaProcessing
    /\ sseOnError

\* C18: when the event stream of the QA process page is closed by a connection
\* error that carries no error payload, isProcessing is not set to false,
\* although the stream is closed.
C18_ConnectionErrorKeepsProcessing ==
    [][ConnectionErrorWhileProcessing => (qaProcessing' /\ es'.state = "closed")]_vars

\* (holds) the stream is closed, and isProcessing is set to false
C18_ConnectionErrorEndsProcessing ==
    [][ConnectionErrorWhileProcessing => (~qaProcessing' /\ es'.state = "closed")]_vars

-----------------------------------------------------------------------------
(* Navigation targets *)

\* the paths of the navigate(...) calls of the QA pages and of the home page's
\* quick actions
ButtonTargets == {"/qa/results", "/qa/process", "/flmm/create", "/eval/workflow"}

\* C19: every path the client navigates to programmatically (the guard's redirect
\* path, the 'restart evaluation' action, menu entries, buttons of the QA pages)
\* is a route registered in the router: the location is always a registered route.
C19_LocationRegistered == loc \in Routes

\* (holds) the menu entries and the buttons lead to registered routes
C19_MenuAndButtonsRegistered == (MenuRoutes \cup ButtonTargets) \subseteq Routes

-----------------------------------------------------------------------------
(* useWorkflowGuard: re-runs of the guard effect *)

\* (variant: no hasShownModal check)
guardEffectUnguarded(hasShown, can) == IF ~can THEN "warn" ELSE "pass"

\* the body of the guard effect: return early if the warning has been shown,
\* show it if canAccess() is false
guardEffectBody(hasShown, can) ==
    IF hasShown THEN "skip" ELSE IF ~can THEN "warn" ELSE "pass"

\* A dependency of the guard effect changed in a render of the mounted guarded
\* view: the cleanup of the previous run destroys the modal that run opened, then
\* the effect body runs again.
guardEffectRerun ==
    /\ loc \in DOMAIN GuardedViews
    /\ LET out == guardEffectBody(hasShownModal, CanAccess(loc))
       IN  /\ hasShownModal' = (hasShownModal \/ out = "warn")
           /\ modalInstance' = IF out = "warn" THEN "open"
                               ELSE IF modalInstance = "open" THEN "destroyed"
                               ELSE modalInstance
           /\ shown' = [shown EXCEPT !.warn = IF out = "warn" THEN Bump(@) ELSE @]
    /\ StoreUnchanged
    /\ UNCHANGED <<loc, ewInst, ewStep, ewTaskId, ewTaskStatus, ewNotified, ewCreating,
                   pollingRef, inflight, creation, backend, cancelSent, flmmVars,
                   qaVars, barVars, nOps, noticeVars>>

NextGuard ==
    \/ \E r \in NavRoutes : Navigate(r)
    \/ GuardOnOk
    \/ handleRestart
    \/ guardEffectRerun
    \/ handleSubmit
    \/ \E cur \in BOOLEAN : createProjectOnSuccess(cur)
    \/ \E cur \in BOOLEAN : createProjectOnError(cur)

SpecGuard == InitApp /\ [][NextGuard]_vars

\* C20: the access-denied warning of the workflow guard is shown at most once per
\* mount of a guarded view, however many times the guard effect re-runs.
C20_WarningOncePerMount == shown.warn <= 1

\* the guard effect has re-run on a denied view: the warning was shown once
C20_Witness ==
    /\ loc \in DOMAIN GuardedViews
    /\ ~CanAccess(loc)
    /\ hasShownModal
    /\ modalInstance = "destroyed"
    /\ shown.warn = 1

-----------------------------------------------------------------------------
(* Reset of the whole store *)

\* the state resetAll leaves is the initial default state
ResetToDefaults == resetAll => PlainState(state') = HardCodedDefault

\* C21: after resetAll the store state equals the initial default state whatever
\* operations came before (the three completion flags false, no project or task
\* ids, default parameters and stages), with browser storage and without it.
C21_ResetAllGivesDefaults == [][ResetToDefaults]_vars

\* what the code does: with browser storage the sections of defaultState are
\* never written, and resetAll gives the initial default state
C21_ResetAllGivesDefaultsWithStorage == [][hasStorage => ResetToDefaults]_vars

-----------------------------------------------------------------------------
(* Subscribers of the store: useWorkflow (useWorkflowGuard.ts) over           *)
(* WorkflowStore.subscribe / notify, in a browser whose storage may throw on *)
(* writes.  A listener's held value is the state useWorkflow last rendered.  *)

MaxListeners == 2

ListenerIds == 1..MaxListeners

InitNotify ==
    /\ \E hs \in BOOLEAN :
         \E throws \in (IF hs THEN BOOLEAN ELSE {FALSE}) :
            ConstructOver(hs, SavedNone, throws)
    /\ nOps = 0
    /\ AppIdle

\* useWorkflow mounts: useState(workflowStore.getState()), then the effect
\* subscribes a listener that stores what it is called with
subscribe(l) ==
    /\ l \notin DOMAIN listeners
    /\ listeners' = [k \in (DOMAIN listeners) \cup {l} |->
                        IF k = l THEN [held |-> getState(state), calls |-> 0]
                        ELSE listeners[k]]
    /\ UNCHANGED <<state, defaultState, alias, hasStorage, storage, justLoaded,
                   setItemThrows, nOps, appVars>>

\* the function subscribe returned, run as the effect's cleanup
unsubscribe(l) ==
    /\ l \in DOMAIN listeners
    /\ listeners' = [k \in (DOMAIN listeners) \ {l} |-> listeners[k]]
    /\ UNCHANGED <<state, defaultState, alias, hasStorage, storage, justLoaded,
                   setItemThrows, nOps, appVars>>

\* a call of one of the store's mutators
StoreMutation ==
    \/ setFLMMProcessCompleted
    \/ resetFLMM
    \/ setQAProcessCompleted
    \/ setQAGenerateTaskId
    \/ setQAEvaluateTaskId
    \/ setQAStep
    \/ saveQAParams
    \/ resetQA
    \/ setEvaluationWorkflowCompleted
    \/ resetEvaluation
    \/ saveEvaluationParams
    \/ updateEvaluationStage
    \/ bulkUpdateEvaluationStages
    \/ resetEvaluationStages
    \/ resetAll

NextNotify ==
    \/ \E l \in ListenerIds : subscribe(l)
    \/ \E l \in ListenerIds : unsubscribe(l)
    \/ StoreMutation

SpecNotify == InitNotify /\ [][NextNotify]_vars

\* the mutation has called every subscribed listener once, with the new state
AllListenersCalled ==
    \A l \in DOMAIN listeners :
        /\ l \in DOMAIN listeners'
        /\ listeners'[l].calls = listeners[l].calls + 1
        /\ listeners'[l].held = getState(state')

\* C22: after every store mutation every currently subscribed listener has been
\* called with the new state, also when the write to browser storage throws, so
\* that no subscriber holds a state other than the store's in-memory state.
C22_MutationNotifiesAll == [][StoreMutation => AllListenersCalled]_vars

\* what the code does: the listeners are called unless the storage write throws
C22_MutationNotifiesUnlessWriteThrows ==
    [][(StoreMutation /\ ~(hasStorage /\ setItemThrows)) => AllListenersCalled]_vars

\* no subscriber holds a state other than the store's, while storage takes writes
C22_SubscribersInSync ==
    ~(hasStorage /\ setItemThrows) => \A l \in DOMAIN listeners : listeners[l].held = state

-----------------------------------------------------------------------------
(* Shape of evaluation.stages *)

\* the fields WorkflowStageSnapshot declares without `?`
RequiredSnapshotKeys == {"key", "label", "progress", "status", "enabled"}

StagesOfState(s) == s.evaluation.v["stages"]

\* Record<EvaluationStageKey, WorkflowStageSnapshot>: the four keys and no other
HasFourStages(s) ==
    /\ Has(s.evaluation, "stages")
    /\ DOMAIN StagesOfState(s).v = ValidStageKeys

\* every stage entry has its required fields, and its key field names the entry
CompleteSnapshots(s) ==
    /\ Has(s.evaluation, "stages")
    /\ \A k \in DOMAIN StagesOfState(s).v :
          /\ RequiredSnapshotKeys \subseteq DOMAIN StagesOfState(s).v[k].v
          /\ StagesOfState(s).v[k].v["key"] = k

\* bulkUpdateEvaluationStages called with a map that has no valid key
UnknownKeysUpdate ==
    \E unknownMap \in StageMaps :
        /\ (DOMAIN unknownMap) \cap ValidStageKeys = {}
        /\ Op
        /\ MutateInPlace("evaluation",
                         bulkUpdateEvaluationStagesOn(state.evaluation, unknownMap))

StagesUnchanged == StagesOfState(state') = StagesOfState(state)

\* C23: in every reachable state, also right after loading from storage,
\* evaluation.stages holds exactly the keys init, stage1, stage2 and result, each
\* with a complete snapshot; a stage update carrying any other key is ignored and
\* leaves the stages unchanged.
C23_StagesWellFormed ==
    /\ [](HasFourStages(state) /\ CompleteSnapshots(state))
    /\ [][UnknownKeysUpdate => StagesUnchanged]_vars

\* what the code does: an update with unknown keys leaves the stages as they are
C23_UnknownKeysIgnored == [][UnknownKeysUpdate => StagesUnchanged]_vars

\* no operation adds or removes a stage key once the four keys are there
C23_FourStagesKept == [][HasFourStages(state) => HasFourStages(state')]_vars

\* a store constructed without a persisted stages map has the four keys
C23_FourStagesUnlessLoaded ==
    (justLoaded /\ ~(storage.kind = "object"
                     /\ "stages" \in DOMAIN FieldOr(storage.obj, "evaluation", EmptyFn)))
        => HasFourStages(state) /\ CompleteSnapshots(state)

====
